---- MODULE Spec2Model ----
(***************************************************************************)
(* imggen core: the asset caches (AssetCache, ImageCache, FontCache), the  *)
(* dispatch wrapper (Generator) and the paste primitive of                 *)
(* BaseImageGenerator, as a state machine of threads stepping through the  *)
(* statements of src/imggen/core.py.                                       *)
(*                                                                         *)
(* Images are heap objects (a reference and its pixels), so that aliasing  *)
(* between the cache, a caller's result and a thread's local is visible.   *)
(* The image library is opaque: Image.open yields a new object holding the *)
(* file's pixels, copy() a new object with the same pixels, paste() writes *)
(* the object's pixels in place.                                           *)
(***************************************************************************)
EXTENDS Integers, Sequences, FiniteSets, TLC

\* ---------------------------------------------------------------- bounds
\* calls made in a run, over all threads
MaxCalls == 2
\* pixels of an image
Width == 2
\* times a caller awaits one awaitable
MaxAwaits == 2
\* image objects the callers of the constructor make, and things they do
\* with the generators they built
MaxImages == 2
MaxOps == 2

\* two threads: callers of the caches, or the callers and workers of
\* dispatched operations
Threads == {1, 2}
Caches == {"img", "font"}
ImgKeys == {"a", "b"}
FontFiles == {"F"}
Sizes == {10, 40}
Keys(c) == IF c = "img" THEN ImgKeys ELSE FontFiles
\* names whose load fails: "x" and "G" are no files of the directory, "y" is
\* no image and "H" no font, "z" is an image file cut short after its header
BadKeys(c) == IF c = "img" THEN {"x", "y", "z"} ELSE {"G", "H"}
AllKeys(c) == Keys(c) \cup BadKeys(c)
FileKind(k) ==
  IF k \in {"x", "G"} THEN "absent"
  ELSE IF k \in {"y", "H"} THEN "garbled"
  ELSE IF k = "z" THEN "truncated" ELSE "ok"

MaxObj == Cardinality(ImgKeys) + 2 * Cardinality(Threads) + 2
ObjIds == 1..MaxObj
Free == [px |-> <<>>, file |-> "free"]

Range(f) == {f[x] : x \in DOMAIN f}
Put(f, k, v) == [x \in DOMAIN f \cup {k} |-> IF x = k THEN v ELSE f[x]]
Drop(f, k) == [x \in DOMAIN f \ {k} |-> f[x]]
Empty == [x \in {} |-> 0]

\* --------------------------------------------------- the opaque libraries
\* the pixels of the image file basepath/key
Asset(key) == [i \in 1..Width |-> key]
\* the bytes of the font file basepath/filename
FileBytes(filename) == filename
\* an image a caller builds itself and stores with cache[key] = image
Custom == [i \in 1..Width |-> "c"]
\* the image a caller pre-seeds the cache with
SeedPx == [i \in 1..Width |-> "s"]
CustomBytes == "Z"

NewRef(h) == CHOOSE o \in ObjIds : h[o] = Free /\ \A p \in ObjIds : p < o => h[p] # Free
\* Image.open / Image.new: a new object
Alloc(h, px, file) == [h EXCEPT ![NewRef(h)] = [px |-> px, file |-> file]]
\* Image.copy: a new object with the same pixels
CopyObj(h, o) == <<Alloc(h, h[o].px, "none"), NewRef(h)>>
\* Image.open reads the header only; the pixels are decoded from the file
\* on the first use of the object (copy() begins with load()), which fails
\* for a file cut short
Loadable(h, o) == FileKind(h[o].file) # "truncated"
\* what open() and the decoders raise
OpenError(k) == IF FileKind(k) = "absent" THEN "FileNotFoundError" ELSE "DecodeError"
LiveObj(h, o) == <<h, o>>
Sweep(h, roots) == [o \in ObjIds |-> IF o \in roots THEN h[o] ELSE Free]

NoRet == [kind |-> "none", ref |-> 0, val |-> <<>>]
NoOp == [name |-> "none", cache |-> "img", key |-> "", size |-> 0,
         kind |-> "", at |-> 0, rs |-> 0, fmt |-> "", ctx |-> "caller"]
NoLoc == [img |-> 0, data |-> "", font |-> 0, n |-> 0, seen |-> {}]

VARIABLES
  async_mode,   \* BaseImageGenerator.async_mode
  cache_dict,   \* [img |-> ImageCache.cache_dict, font |-> FontCache.cache_dict]
  lock,         \* [img, font]: the thread holding that cache's lock, 0 when free
  heap,         \* the image objects
  seed,         \* the image object the caller pre-seeded, 0 when none
  nfonts,       \* font objects constructed so far
  pc, op, loc, ret,   \* per thread: position, call and arguments, locals, result
  fut,          \* per thread: the awaitable its caller holds
  held,         \* per thread: the font object its caller kept from its last call
  ncalls,       \* calls made so far
  reads,        \* [cache][key]: backing-store reads so far
  requested,    \* [cache][key]: some get(key) has been invoked
  assigned,     \* [cache][key]: key was pre-seeded or stored by set
  settled,      \* [cache][key]: a get(key) has returned and no delete(key) since
  seen,         \* per thread: what its caller got from awaiting the awaitable
  wt,           \* per thread: the locals of the writetext call in progress
  roots,        \* the BaseImageGenerator instances built, by name
  generators,   \* the Generator objects made, in the order of their making
  supplied,     \* the image mapping a caller passes to the constructors
  pix,          \* the pixel of each image object the constructors' caller knows
  log,          \* the last invocation of an attribute of an instance
  nops,         \* things done to built instances so far
  mark          \* per thread, of the get in progress:
                \*   first: key was never requested before and is not pre-seeded
                \*   fresh: nor has it been stored by set, or by anyone since
                \*   sure:  a get(key) had returned, and no delete(key) since
                \*   undel: no delete(key) ran during this call
                \*   nread: backing-store reads this call has made
                \*   wrote: this call has written the mapping

vars == <<async_mode, cache_dict, lock, heap, seed, nfonts, pc, op, loc, ret, fut,
          held, ncalls, reads, requested, assigned, settled, mark, seen, wt,
          roots, generators, supplied, pix, log, nops>>

\* the instances built and what their caller holds
instances == <<roots, generators, supplied, pix, log, nops>>
\* the state that only dispatched calls, writetext and the constructor touch
elsewhere == <<seen, wt, instances>>
\* one instance's caches, its threads and their calls
inside == <<async_mode, cache_dict, lock, heap, seed, nfonts, pc, op, loc, ret, fut,
            held, ncalls, reads, requested, assigned, settled, mark, seen, wt>>

Insts == {"A", "B"}
\* the attributes of the class: the methods tagged by @generator, and others
TaggedNames == {"wanted", "worthless"}
PlainNames == {"paste", "writetext"}
Executors == {"none", "thread", "process"}
NotBuilt == [built |-> FALSE, async_mode |-> FALSE, given |-> FALSE, executor |-> "none",
             loop |-> "none", image_lock |-> "", font_lock |-> "", image_cache |-> Empty,
             attrs |-> [n \in TaggedNames \cup PlainNames |-> 0]]
NoLog == [inst |-> "", name |-> "", via |-> 0, mode |-> "", executor |-> "", caches |-> ""]
\* no writetext in progress. image: the target; own: the caller passed it in
\* as an object; before: its pixels when the call began; text, size, center
\* and xy: as in the code
NoText == [image |-> 0, own |-> FALSE, before |-> <<>>, text |-> <<>>,
           center |-> <<0, 0>>, xy |-> <<0, 0>>]
\* nothing awaited yet
NoSeen == [n |-> 0, last |-> NoRet]
NoMark == [first |-> FALSE, fresh |-> FALSE, sure |-> FALSE, undel |-> FALSE, nread |-> 0, wrote |-> FALSE]

Roots(cd, l, r, s, w) ==
  Range(cd.img) \cup {l[t].img : t \in Threads}
    \cup {r[t].ref : t \in {u \in Threads : r[u].kind = "img"}} \cup {s}
    \cup {w[t].image : t \in Threads}

\* ------------------------------------------------------------------ Init
\* BaseImageGenerator.__init__: the caches start as copies of the mappings
\* passed in (empty by default), each with a lock of its own.
Construct(am) ==
  /\ async_mode = am
  /\ \E seeded \in BOOLEAN :
       /\ seed = IF seeded THEN 1 ELSE 0
       /\ heap = [o \in ObjIds |-> IF seeded /\ o = 1
                                   THEN [px |-> SeedPx, file |-> "none"] ELSE Free]
       /\ cache_dict = [img |-> IF seeded THEN Put(Empty, "a", 1) ELSE Empty,
                        font |-> Empty]
       /\ assigned = [c \in Caches |-> [k \in AllKeys(c) |-> seeded /\ c = "img" /\ k = "a"]]
  /\ lock = [c \in Caches |-> 0]
  /\ nfonts = 0
  /\ pc = [t \in Threads |-> "idle"]
  /\ op = [t \in Threads |-> NoOp]
  /\ loc = [t \in Threads |-> NoLoc]
  /\ ret = [t \in Threads |-> NoRet]
  /\ fut = [t \in Threads |-> "none"]
  /\ held = [t \in Threads |-> NoRet]
  /\ ncalls = 0
  /\ reads = [c \in Caches |-> [k \in AllKeys(c) |-> 0]]
  /\ requested = [c \in Caches |-> [k \in AllKeys(c) |-> FALSE]]
  /\ settled = [c \in Caches |-> [k \in AllKeys(c) |-> FALSE]]
  /\ mark = [t \in Threads |-> NoMark]
  /\ seen = [t \in Threads |-> NoSeen]
  /\ wt = [t \in Threads |-> NoText]
  /\ roots = [i \in Insts |-> NotBuilt]
  /\ generators = <<>>
  /\ supplied = Put(Empty, "a", 1)
  /\ pix = [o \in 1..MaxImages |-> IF o = 1 THEN "s" ELSE "free"]
  /\ log = NoLog
  /\ nops = 0

\* the default: async_mode = False
Init == Construct(FALSE)

\* ------------------------------------------------------- code fragments
\* ImageCache.__getitem__, hit: return self.cache_dict[key].copy()
ImageCache_hit_result(h, o) == CopyObj(h, o)
\* ImageCache.__getitem__, miss: return img.copy()
ImageCache_miss_result(h, o) == CopyObj(h, o)
\* AssetCache.__setitem__: self.cache_dict[key] = value
EvictingStore(d, k, v) == [x \in {k} |-> v]
NoStore(d, k, v) == d
StoreEntry(d, k, v) == Put(d, k, v)
\* the end of a `with self.lock:` block
KeepLock(l, c) == l
Release(l, c) == [l EXCEPT ![c] = 0]
\* a `with self.lock:` block left by an exception
LeakOnRaise(l, c) == l
ExitOnRaise(l, c) == [l EXCEPT ![c] = 0]
\* FontCache.__getitem__: the mapping is read and written at `filename`
SizedName(filename, size) == IF size = 10 THEN "F@10" ELSE "F@40"
FontKey(filename, size) == filename
\* ImageFont.truetype(io.BytesIO(data), size=size): font object number n
SameFont(n, data, size) == [kind |-> "font", ref |-> 1, val |-> <<data, size>>]
TrueType(n, data, size) == [kind |-> "font", ref |-> n, val |-> <<data, size>>]

ImgRet(o) == [kind |-> "img", ref |-> o, val |-> <<>>]
Raise(e) == [kind |-> "err", ref |-> 0, val |-> <<e>>]
Value(k, v) == [kind |-> k, ref |-> 0, val |-> <<v>>]

\* where ImageCache.__getitem__ returns to
AfterImageGet(t) ==
  IF op[t].name = "paste" THEN "paste_body" ELSE IF op[t].name = "text" THEN "wt_font" ELSE "done"
\* where FontCache.__getitem__ returns to
AfterFontGet(t) == IF op[t].name = "text" THEN "wt_draw" ELSE "done"
\* where AssetCache.__setitem__ returns to
AfterSet(t) == IF op[t].name = "set" THEN "done" ELSE "ig_copy"

\* bookkeeping of a returning get(key): key is settled unless a delete ran meanwhile
Settle(t) ==
  [settled EXCEPT ![op[t].cache][op[t].key] = @ \/ mark[t].undel]

\* the awaitable of a call that raised
Failed(t) == [fut EXCEPT ![t] = IF @ = "pending" THEN "failed" ELSE @]

\* bookkeeping of a store of key by thread t: the other calls on key in
\* progress no longer find the cache as it was when they began
Stored(t, c, k) ==
  [u \in Threads |-> IF u = t THEN [mark[u] EXCEPT !.wrote = TRUE]
                     ELSE IF op[u].cache = c /\ op[u].key = k
                     THEN [mark[u] EXCEPT !.fresh = FALSE] ELSE mark[u]]

\* key was in the mapping passed to the constructor
Seeded(c, k) == c = "img" /\ k = "a" /\ seed # 0

\* --------------------------------------------------------------- callers
\* idle threads are interchangeable: the lowest-numbered one takes the next call
Begin(t, o, p, l) ==
  /\ pc[t] = "idle"
  /\ \A u \in Threads : u < t => pc[u] # "idle"
  /\ ncalls < MaxCalls
  /\ ncalls' = ncalls + 1
  /\ op' = [op EXCEPT ![t] = o]
  /\ pc' = [pc EXCEPT ![t] = p]
  /\ loc' = [loc EXCEPT ![t] = l]
  /\ ret' = [ret EXCEPT ![t] = NoRet]

\* a thread evaluates image_cache[key]
Call_getitem_image(t) ==
  \E k \in ImgKeys :
    /\ Begin(t, [NoOp EXCEPT !.name = "iget", !.cache = "img", !.key = k], "ig_lock", NoLoc)
    /\ mark' = [mark EXCEPT ![t] = [first |-> ~requested.img[k] /\ ~Seeded("img", k), fresh |-> ~assigned.img[k],
                                    sure |-> settled.img[k], undel |-> TRUE, nread |-> 0, wrote |-> FALSE]]
    /\ requested' = [requested EXCEPT !.img[k] = TRUE]
    /\ UNCHANGED <<async_mode, held, elsewhere, cache_dict, lock, heap, seed, nfonts, fut, reads,
                   assigned, settled>>

\* a thread evaluates font_cache[filename, size]
Call_getitem_font(t) ==
  \E k \in FontFiles, s \in Sizes :
    /\ Begin(t, [NoOp EXCEPT !.name = "fget", !.cache = "font", !.key = k, !.size = s],
             "fg_lock", NoLoc)
    /\ mark' = [mark EXCEPT ![t] = [first |-> ~requested.font[k] /\ ~Seeded("font", k), fresh |-> ~assigned.font[k],
                                    sure |-> settled.font[k], undel |-> TRUE, nread |-> 0, wrote |-> FALSE]]
    /\ requested' = [requested EXCEPT !.font[k] = TRUE]
    /\ UNCHANGED <<async_mode, held, elsewhere, cache_dict, lock, heap, seed, nfonts, fut, reads,
                   assigned, settled>>

\* a thread evaluates cache[key] for a key whose file is absent or broken
Call_getitem_failing(t) ==
  \E c \in Caches, k \in BadKeys("img") \cup BadKeys("font") :
    /\ k \in BadKeys(c)
    /\ Begin(t, [NoOp EXCEPT !.name = IF c = "img" THEN "iget" ELSE "fget", !.cache = c,
                             !.key = k, !.size = IF c = "img" THEN NoOp.size ELSE 10],
             IF c = "img" THEN "ig_lock" ELSE "fg_lock", NoLoc)
    /\ mark' = [mark EXCEPT ![t] = [first |-> ~requested[c][k], fresh |-> ~assigned[c][k],
                                    sure |-> settled[c][k], undel |-> TRUE, nread |-> 0, wrote |-> FALSE]]
    /\ requested' = [requested EXCEPT ![c][k] = TRUE]
    /\ UNCHANGED <<async_mode, held, elsewhere, cache_dict, lock, heap, seed, nfonts, fut, reads,
                   assigned, settled>>

\* a thread executes cache[key] = value with a value of its own making
Call_setitem(t) ==
  \E c \in Caches, k \in ImgKeys \cup FontFiles :
    /\ k \in Keys(c)
    /\ Begin(t, [NoOp EXCEPT !.name = "set", !.cache = c, !.key = k], "set_lock",
             IF c = "img" THEN [NoLoc EXCEPT !.img = NewRef(heap)]
                          ELSE [NoLoc EXCEPT !.data = CustomBytes])
    /\ heap' = IF c = "img" THEN Alloc(heap, Custom, "none") ELSE heap
    /\ UNCHANGED <<async_mode, held, elsewhere, cache_dict, lock, seed, nfonts, fut, reads,
                   requested, assigned, settled, mark>>

\* a thread executes del cache[key]
Call_delitem(t) ==
  \E c \in Caches, k \in ImgKeys \cup FontFiles :
    /\ k \in Keys(c)
    /\ Begin(t, [NoOp EXCEPT !.name = "del", !.cache = c, !.key = k], "del_lock", NoLoc)
    /\ UNCHANGED <<async_mode, held, elsewhere, cache_dict, lock, heap, seed, nfonts, fut, reads,
                   requested, assigned, settled, mark>>

\* a thread evaluates len(cache)
Call_len(t) ==
  \E c \in Caches :
    /\ Begin(t, [NoOp EXCEPT !.name = "len", !.cache = c], "len", NoLoc)
    /\ UNCHANGED <<async_mode, held, elsewhere, cache_dict, lock, heap, seed, nfonts, fut, reads,
                   requested, assigned, settled, mark>>

\* a thread starts `for key in cache`
Call_iter(t) ==
  \E c \in Caches :
    /\ Begin(t, [NoOp EXCEPT !.name = "iter", !.cache = c], "iter", NoLoc)
    /\ UNCHANGED <<async_mode, held, elsewhere, cache_dict, lock, heap, seed, nfonts, fut, reads,
                   requested, assigned, settled, mark>>

\* ------------------------------------------------- AssetCache.__setitem__
AssetCache_setitem_lock(t) ==
  /\ pc[t] = "set_lock"
  /\ lock[op[t].cache] = 0
  /\ lock' = [lock EXCEPT ![op[t].cache] = t]
  /\ pc' = [pc EXCEPT ![t] = "set_store"]
  /\ UNCHANGED <<async_mode, held, elsewhere, cache_dict, heap, seed, nfonts, op, loc, ret, fut, ncalls,
                 reads, requested, assigned, settled, mark>>

AssetCache_setitem_store(t) ==
  LET c == op[t].cache
      k == op[t].key
      v == IF c = "img" THEN loc[t].img ELSE loc[t].data
      cd == [cache_dict EXCEPT ![c] = StoreEntry(cache_dict[c], k, v)]
      byset == op[t].name = "set"
      l2 == IF byset THEN [loc EXCEPT ![t] = NoLoc] ELSE loc
      r2 == IF byset THEN [ret EXCEPT ![t] = Value("ok", 0)] ELSE ret
  IN /\ pc[t] = "set_store"
     /\ cache_dict' = cd
     /\ lock' = Release(lock, c)
     /\ pc' = [pc EXCEPT ![t] = AfterSet(t)]
     /\ loc' = l2
     /\ ret' = r2
     /\ heap' = Sweep(heap, Roots(cd, l2, r2, seed, wt))
     /\ assigned' = IF byset THEN [assigned EXCEPT ![c][k] = TRUE] ELSE assigned
     /\ mark' = Stored(t, c, k)
     /\ UNCHANGED <<async_mode, held, elsewhere, seed, nfonts, op, fut, ncalls, reads, requested, settled>>

\* ------------------------------------------------- AssetCache.__delitem__
AssetCache_delitem_lock(t) ==
  /\ pc[t] = "del_lock"
  /\ lock[op[t].cache] = 0
  /\ lock' = [lock EXCEPT ![op[t].cache] = t]
  /\ pc' = [pc EXCEPT ![t] = "del_del"]
  /\ UNCHANGED <<async_mode, held, elsewhere, cache_dict, heap, seed, nfonts, op, loc, ret, fut, ncalls,
                 reads, requested, assigned, settled, mark>>

AssetCache_delitem_del(t) ==
  LET c == op[t].cache
      k == op[t].key
      found == k \in DOMAIN cache_dict[c]
      cd == IF found THEN [cache_dict EXCEPT ![c] = Drop(cache_dict[c], k)] ELSE cache_dict
      r2 == [ret EXCEPT ![t] = IF found THEN Value("ok", 0) ELSE Raise("KeyError")]
  IN /\ pc[t] = "del_del"
     /\ cache_dict' = cd
     /\ lock' = IF found THEN Release(lock, c) ELSE ExitOnRaise(lock, c)
     /\ pc' = [pc EXCEPT ![t] = "done"]
     /\ ret' = r2
     /\ heap' = Sweep(heap, Roots(cd, loc, r2, seed, wt))
     /\ settled' = [settled EXCEPT ![c][k] = FALSE]
     /\ mark' = [u \in Threads |->
                   IF op[u].cache = c /\ op[u].key = k
                   THEN [mark[u] EXCEPT !.sure = FALSE, !.undel = FALSE] ELSE mark[u]]
     /\ UNCHANGED <<async_mode, held, elsewhere, seed, nfonts, op, loc, fut, ncalls, reads, requested,
                    assigned>>

\* ------------------------------------- AssetCache.__len__ and __iter__
AssetCache_len(t) ==
  /\ pc[t] = "len"
  /\ ret' = [ret EXCEPT ![t] = Value("int", Cardinality(DOMAIN cache_dict[op[t].cache]))]
  /\ pc' = [pc EXCEPT ![t] = "done"]
  /\ UNCHANGED <<async_mode, held, elsewhere, cache_dict, lock, heap, seed, nfonts, op, loc, fut, ncalls,
                 reads, requested, assigned, settled, mark>>

\* __iter__ hands out the mapping's own iterator, which remembers the size it saw
AssetCache_iter(t) ==
  /\ pc[t] = "iter"
  /\ loc' = [loc EXCEPT ![t] = [NoLoc EXCEPT !.n = Cardinality(DOMAIN cache_dict[op[t].cache])]]
  /\ pc' = [pc EXCEPT ![t] = "it_next"]
  /\ UNCHANGED <<async_mode, held, elsewhere, cache_dict, lock, heap, seed, nfonts, op, ret, fut, ncalls,
                 reads, requested, assigned, settled, mark>>

\* one step of the iterator: the next key, the end, or the mapping's complaint
\* that its size changed under the iterator
Iterator_next(t) ==
  LET d == DOMAIN cache_dict[op[t].cache]
      left == d \ loc[t].seen
  IN /\ pc[t] = "it_next"
     /\ IF Cardinality(d) # loc[t].n
        THEN /\ ret' = [ret EXCEPT ![t] = Raise("RuntimeError")]
             /\ pc' = [pc EXCEPT ![t] = "done"]
             /\ loc' = [loc EXCEPT ![t] = NoLoc]
        ELSE IF left = {}
        THEN /\ ret' = [ret EXCEPT ![t] = Value("keys", loc[t].seen)]
             /\ pc' = [pc EXCEPT ![t] = "done"]
             /\ loc' = [loc EXCEPT ![t] = NoLoc]
        ELSE /\ loc' = [loc EXCEPT ![t].seen = @ \cup {CHOOSE k \in left : TRUE}]
             /\ UNCHANGED <<ret, pc>>
     /\ UNCHANGED <<async_mode, held, elsewhere, cache_dict, lock, heap, seed, nfonts, op, fut, ncalls,
                    reads, requested, assigned, settled, mark>>

\* ------------------------------------------------- ImageCache.__getitem__
ImageCache_getitem_lock(t) ==
  /\ pc[t] = "ig_lock"
  /\ lock.img = 0
  /\ lock' = [lock EXCEPT !.img = t]
  /\ pc' = [pc EXCEPT ![t] = "ig_check"]
  /\ UNCHANGED <<async_mode, held, elsewhere, cache_dict, heap, seed, nfonts, op, loc, ret, fut, ncalls,
                 reads, requested, assigned, settled, mark>>

\* with self.lock: if key in self.cache_dict: return self.cache_dict[key].copy()
ImageCache_getitem_check(t) ==
  /\ pc[t] = "ig_check"
  /\ lock' = Release(lock, "img")
  /\ IF op[t].key \in DOMAIN cache_dict.img
     THEN IF Loadable(heap, cache_dict.img[op[t].key])
          THEN LET hr == ImageCache_hit_result(heap, cache_dict.img[op[t].key])
               IN /\ heap' = hr[1]
                  /\ ret' = [ret EXCEPT ![t] = ImgRet(hr[2])]
                  /\ pc' = [pc EXCEPT ![t] = AfterImageGet(t)]
                  /\ settled' = Settle(t)
                  /\ fut' = fut
          ELSE /\ ret' = [ret EXCEPT ![t] = Raise("DecodeError")]
               /\ pc' = [pc EXCEPT ![t] = "done"]
               /\ fut' = Failed(t)
               /\ UNCHANGED <<heap, settled>>
     ELSE /\ pc' = [pc EXCEPT ![t] = "ig_open"]
          /\ UNCHANGED <<heap, ret, settled, fut>>
  /\ UNCHANGED <<async_mode, held, elsewhere, cache_dict, seed, nfonts, op, loc, ncalls, reads,
                 requested, assigned, mark>>

\* img = Image.open(self.basepath / key), then self[key] = img
ImageCache_getitem_open(t) ==
  /\ pc[t] = "ig_open"
  /\ reads' = [reads EXCEPT !.img[op[t].key] = @ + 1]
  /\ mark' = [mark EXCEPT ![t].nread = @ + 1]
  /\ IF FileKind(op[t].key) \in {"absent", "garbled"}
     THEN /\ ret' = [ret EXCEPT ![t] = Raise(OpenError(op[t].key))]
          /\ pc' = [pc EXCEPT ![t] = "done"]
          /\ fut' = Failed(t)
          /\ UNCHANGED <<heap, loc>>
     ELSE /\ heap' = Alloc(heap, Asset(op[t].key), op[t].key)
          /\ loc' = [loc EXCEPT ![t].img = NewRef(heap)]
          /\ pc' = [pc EXCEPT ![t] = "set_lock"]
          /\ UNCHANGED <<ret, fut>>
  /\ UNCHANGED <<async_mode, held, elsewhere, cache_dict, lock, seed, nfonts, op, ncalls,
                 requested, assigned, settled>>

\* return img.copy()
ImageCache_getitem_copy(t) ==
  LET ok == Loadable(heap, loc[t].img)
      hr == ImageCache_miss_result(heap, loc[t].img)
      l2 == [loc EXCEPT ![t] = NoLoc]
      r2 == [ret EXCEPT ![t] = IF ok THEN ImgRet(hr[2]) ELSE Raise("DecodeError")]
  IN /\ pc[t] = "ig_copy"
     /\ loc' = l2
     /\ ret' = r2
     /\ heap' = Sweep(IF ok THEN hr[1] ELSE heap, Roots(cache_dict, l2, r2, seed, wt))
     /\ pc' = [pc EXCEPT ![t] = IF ok THEN AfterImageGet(t) ELSE "done"]
     /\ settled' = IF ok THEN Settle(t) ELSE settled
     /\ fut' = IF ok THEN fut ELSE Failed(t)
     /\ UNCHANGED <<async_mode, held, elsewhere, cache_dict, lock, seed, nfonts, op, ncalls,
                    reads, requested, assigned, mark>>

\* -------------------------------------------------- FontCache.__getitem__
FontCache_getitem_lock(t) ==
  /\ pc[t] = "fg_lock"
  /\ lock.font = 0
  /\ lock' = [lock EXCEPT !.font = t]
  /\ pc' = [pc EXCEPT ![t] = "fg_check"]
  /\ UNCHANGED <<async_mode, held, elsewhere, cache_dict, heap, seed, nfonts, op, loc, ret, fut, ncalls,
                 reads, requested, assigned, settled, mark>>

\* with self.lock: if filename in self.cache_dict: return ImageFont.truetype(...)
FontCache_getitem_check(t) ==
  LET k == FontKey(op[t].key, op[t].size)
  IN /\ pc[t] = "fg_check"
     /\ lock' = Release(lock, "font")
     /\ IF k \in DOMAIN cache_dict.font
        THEN /\ nfonts' = nfonts + 1
             /\ ret' = [ret EXCEPT ![t] = TrueType(nfonts + 1, cache_dict.font[k], op[t].size)]
             /\ pc' = [pc EXCEPT ![t] = AfterFontGet(t)]
             /\ settled' = Settle(t)
        ELSE /\ pc' = [pc EXCEPT ![t] = "fg_read"]
             /\ UNCHANGED <<nfonts, ret, settled>>
     /\ UNCHANGED <<async_mode, held, elsewhere, cache_dict, heap, seed, op, loc, fut, ncalls, reads,
                    requested, assigned, mark>>

\* fontbytes = f.read(); font = ImageFont.truetype(io.BytesIO(fontbytes), size=size)
FontCache_getitem_read(t) ==
  /\ pc[t] = "fg_read"
  /\ reads' = [reads EXCEPT !.font[op[t].key] = @ + 1]
  /\ mark' = [mark EXCEPT ![t].nread = @ + 1]
  /\ IF FileKind(op[t].key) = "ok"
     THEN /\ nfonts' = nfonts + 1
          /\ loc' = [loc EXCEPT ![t].data = FileBytes(op[t].key), ![t].font = nfonts + 1]
          /\ pc' = [pc EXCEPT ![t] = "fg_store"]
          /\ UNCHANGED <<ret, fut>>
     ELSE /\ ret' = [ret EXCEPT ![t] = Raise(OpenError(op[t].key))]
          /\ pc' = [pc EXCEPT ![t] = "done"]
          /\ fut' = Failed(t)
          /\ UNCHANGED <<nfonts, loc>>
  /\ UNCHANGED <<async_mode, held, elsewhere, cache_dict, lock, heap, seed, op, ncalls,
                 requested, assigned, settled>>

\* self.cache_dict[filename] = fontbytes; return font
FontCache_getitem_store(t) ==
  /\ pc[t] = "fg_store"
  /\ cache_dict' = [cache_dict EXCEPT
                      !.font = StoreEntry(@, FontKey(op[t].key, op[t].size), loc[t].data)]
  /\ ret' = [ret EXCEPT ![t] = TrueType(loc[t].font, loc[t].data, op[t].size)]
  /\ loc' = [loc EXCEPT ![t] = NoLoc]
  /\ pc' = [pc EXCEPT ![t] = AfterFontGet(t)]
  /\ settled' = Settle(t)
  /\ mark' = Stored(t, "font", op[t].key)
  /\ UNCHANGED <<async_mode, held, elsewhere, lock, heap, seed, nfonts, op, fut, ncalls, reads,
                 requested, assigned>>

\* ------------------------------------------------------------ the caller
Marked == [i \in 1..Width |-> "m"]

\* the caller draws on the image a get returned to it
MutateResult(t) ==
  /\ pc[t] = "done"
  /\ op[t].name = "iget"
  /\ ret[t].kind = "img"
  /\ ret[t].val = <<>>
  /\ heap' = [heap EXCEPT ![ret[t].ref].px = Marked]
  /\ ret' = [ret EXCEPT ![t].val = <<"drawn">>]
  /\ UNCHANGED <<async_mode, held, elsewhere, cache_dict, lock, seed, nfonts, pc, op, loc, fut,
                 ncalls, reads, requested, assigned, settled, mark>>

\* the caller is done with the result and drops it
Finish(t) ==
  LET l2 == [loc EXCEPT ![t] = NoLoc]
      r2 == [ret EXCEPT ![t] = NoRet]
  IN /\ pc[t] = "done"
     /\ pc' = [pc EXCEPT ![t] = "idle"]
     /\ op' = [op EXCEPT ![t] = NoOp]
     /\ loc' = l2
     /\ ret' = r2
     /\ mark' = [mark EXCEPT ![t] = NoMark]
     /\ fut' = [fut EXCEPT ![t] = "none"]
     /\ held' = [held EXCEPT ![t] = IF ret[t].kind = "font" THEN ret[t] ELSE NoRet]
     /\ heap' = Sweep(heap, Roots(cache_dict, l2, r2, seed, [wt EXCEPT ![t] = NoText]))
     /\ seen' = [seen EXCEPT ![t] = NoSeen]
     /\ wt' = [wt EXCEPT ![t] = NoText]
     /\ UNCHANGED <<async_mode, instances, cache_dict, lock, seed, nfonts, ncalls, reads,
                    requested, assigned, settled>>

\* ------------------------------------------- BaseImageGenerator.paste
Formats == {"JPEG", "PNG"}
OverlayKinds == {"image", "bytes", "bytesio", "path", "other"}
\* the one pixel of the picture thread t passes as overlay
OvColor(t) == <<"p", "q">>[t]

\* convert_to_image: str -> Image.open; bytes -> BytesIO -> Image.open;
\* an Image stays; anything else is a TypeError
convert_to_image(kind, color) ==
  LET k1 == IF kind = "path" THEN "image" ELSE kind
      k2 == IF k1 = "bytes" THEN "bytesio" ELSE k1
      k3 == IF k2 = "bytesio" THEN "image" ELSE k2
  IN IF k3 = "image" THEN <<color>> ELSE <<>>

\* image.resize(resize) when resize is given
Resize(im, rs) == IF rs # 0 THEN [i \in 1..rs |-> im[1]] ELSE im

\* base.paste(image, coords): the overlay's pixels from coords on, clipped
PasteOp(base, im, at) ==
  [i \in 1..Len(base) |-> IF i >= at /\ i < at + Len(im) THEN im[i - at + 1] ELSE base[i]]

\* image_to_bytesio: the image saved in `format`
image_to_bytesio(px, fmt) == [kind |-> "bytes", ref |-> 0, val |-> <<fmt, px>>]

\* Generator.__call__: where the wrapped function runs
AlwaysInline(am) == "caller"
Dispatch(am) == IF am THEN "worker" ELSE "caller"

\* Generator.__call__ on a generator method whose body is self.paste(...).
\* paste reads its overlay, coords, resize and format only after it has
\* fetched the base image, so these arguments are drawn where they are read.
Generator_call(t) ==
  \E k \in ImgKeys :
    LET where == Dispatch(async_mode)
    IN /\ Begin(t, [NoOp EXCEPT !.name = "paste", !.key = k, !.ctx = where],
                IF where = "worker" THEN "queued" ELSE "ig_lock", NoLoc)
       /\ fut' = [fut EXCEPT ![t] = IF where = "worker" THEN "pending" ELSE "none"]
       /\ mark' = [mark EXCEPT ![t] = [first |-> ~requested.img[k] /\ ~Seeded("img", k),
                                       fresh |-> ~assigned.img[k],
                                       sure |-> settled.img[k], undel |-> TRUE, nread |-> 0, wrote |-> FALSE]]
       /\ requested' = [requested EXCEPT !.img[k] = TRUE]
       /\ UNCHANGED <<async_mode, held, elsewhere, cache_dict, lock, heap, seed, nfonts, reads,
                      assigned, settled>>

\* a worker of the executor takes the submitted call
Executor_run(t) ==
  /\ pc[t] = "queued"
  /\ pc' = [pc EXCEPT ![t] = "ig_lock"]
  /\ UNCHANGED <<async_mode, held, elsewhere, cache_dict, lock, heap, seed, nfonts, op, loc, ret, fut,
                 ncalls, reads, requested, assigned, settled, mark>>

\* image = self.convert_to_image(image); resize; base.paste(image, coords).
\* The local `image` now names the decoded picture, whatever was passed in.
paste_body(t) ==
  \E kind \in OverlayKinds :
    LET im == convert_to_image(kind, OvColor(t))
        r2 == [ret EXCEPT ![t] = Raise("TypeError")]
    IN /\ pc[t] = "paste_body"
       /\ IF im = <<>>
          THEN /\ op' = [op EXCEPT ![t].kind = kind]
               /\ ret' = r2
               /\ heap' = Sweep(heap, Roots(cache_dict, loc, r2, seed, wt))
               /\ pc' = [pc EXCEPT ![t] = "done"]
               /\ fut' = Failed(t)
          ELSE \E at \in 1..Width, rs \in {0, 2} :
               /\ op' = [op EXCEPT ![t].kind = "image", ![t].at = at, ![t].rs = rs]
               /\ heap' = [heap EXCEPT ![ret[t].ref].px = PasteOp(@, Resize(im, rs), at)]
               /\ pc' = [pc EXCEPT ![t] = "paste_save"]
               /\ UNCHANGED <<ret, fut>>
       /\ UNCHANGED <<async_mode, held, elsewhere, cache_dict, lock, seed, nfonts, loc, ncalls, reads,
                      requested, assigned, settled, mark>>

\* return self.image_to_bytesio(base, format=format)
paste_save(t) ==
  \E f \in Formats :
    LET r2 == [ret EXCEPT ![t] = image_to_bytesio(heap[ret[t].ref].px, f)]
    IN /\ pc[t] = "paste_save"
       /\ op' = [op EXCEPT ![t].fmt = f]
       /\ ret' = r2
       /\ heap' = Sweep(heap, Roots(cache_dict, loc, r2, seed, wt))
       /\ pc' = [pc EXCEPT ![t] = "done"]
       /\ fut' = [fut EXCEPT ![t] = IF @ = "pending" THEN "resolved" ELSE @]
       /\ UNCHANGED <<async_mode, held, elsewhere, cache_dict, lock, seed, nfonts, loc, ncalls, reads,
                      requested, assigned, settled, mark>>

\* --------------------------------------- BaseImageGenerator.writetext
\* texts are sequences of characters; "x" stands for any visible character
Texts == {<<"x">>, <<" ", "x", "x", "x", "\n">>, <<"x", "\n", "x", "x">>}
Centers == {<<1, 50>>, <<2, 50>>}
ReturnTypes == {"Image", "BytesIO", "bytes", "str"}
Whitespace == {" ", "\n"}

\* str.strip()
RECURSIVE lstrip(_)
lstrip(s) == IF s # <<>> /\ Head(s) \in Whitespace THEN lstrip(Tail(s)) ELSE s
RECURSIVE rstrip(_)
rstrip(s) ==
  IF s # <<>> /\ s[Len(s)] \in Whitespace THEN rstrip(SubSeq(s, 1, Len(s) - 1)) ELSE s
strip(s) == rstrip(lstrip(s))

\* str.split("\n"): the lines, at least one
RECURSIVE split(_)
split(s) ==
  IF \E i \in 1..Len(s) : s[i] = "\n"
  THEN LET i == CHOOSE j \in 1..Len(s) : s[j] = "\n" /\ \A h \in 1..(j - 1) : s[h] # "\n"
       IN <<SubSeq(s, 1, i - 1)>> \o split(SubSeq(s, i + 1, Len(s)))
  ELSE <<s>>

\* the font's metrics: the advance of one character of the font made from
\* `data` at `size`
Advance(data, size) == IF data = CustomBytes THEN size \div 10 + 1 ELSE size \div 10
\* font.getlength(line)
getlength(font, line) == Len(line) * Advance(font.val[1], font.val[2])
Max(S) == CHOOSE m \in S : \A n \in S : n <= m
\* n // 2
HalfUp(n) == (n + 1) \div 2
Half(n) == n \div 2

\* lines 255-257: length, height and xy
Origin(font, size, text, center) ==
  LET lines == split(text)
      length == Max({getlength(font, lines[i]) : i \in 1..Len(lines)})
      height == size * Len(lines)
  IN <<center[1] - Half(length), center[2] - Half(height)>>

BlockLength(font, text) ==
  LET lines == split(text) IN Max({getlength(font, lines[i]) : i \in 1..Len(lines)})

\* draw.text(xy, text, ...): the text's block painted from column xy[1] on,
\* clipped to the image
DrawText(px, xy, length) ==
  [i \in 1..Len(px) |-> IF xy[1] <= i /\ i < xy[1] + length THEN "t" ELSE px[i]]

\* BytesIO.read()
read(b) == [b EXCEPT !.kind = "raw"]

\* a caller calls writetext, with a key of the image cache or with an image
\* object of its own as the target. The calls follow one another: concurrent
\* users of the caches are the subject of Spec and SpecGen.
Call_writetext(t) ==
  /\ \A u \in Threads : pc[u] = "idle"
  /\ \/ /\ Begin(t, [NoOp EXCEPT !.name = "text"], "wt_font", NoLoc)
        /\ heap' = Alloc(heap, Custom, "none")
        /\ wt' = [wt EXCEPT ![t] = [NoText EXCEPT !.image = NewRef(heap), !.own = TRUE,
                                                   !.before = Custom]]
        /\ UNCHANGED <<async_mode, held, seen, instances, cache_dict, lock, seed, nfonts, fut, reads,
                       requested, assigned, settled, mark>>
     \/ \E k \in ImgKeys :
          /\ Begin(t, [NoOp EXCEPT !.name = "text", !.key = k], "ig_lock", NoLoc)
          /\ mark' = [mark EXCEPT ![t] = [first |-> ~requested.img[k] /\ ~Seeded("img", k),
                                          fresh |-> ~assigned.img[k],
                                          sure |-> settled.img[k], undel |-> TRUE, nread |-> 0, wrote |-> FALSE]]
          /\ requested' = [requested EXCEPT !.img[k] = TRUE]
          /\ UNCHANGED <<async_mode, held, elsewhere, cache_dict, lock, heap, seed, nfonts,
                         fut, reads, assigned, settled>>

\* the target is resolved; font = self.font_cache[fontname, size]
writetext_font(t) ==
  \E fn \in FontFiles, s \in Sizes :
    /\ pc[t] = "wt_font"
    /\ wt' = [wt EXCEPT ![t].image = IF wt[t].own THEN @ ELSE ret[t].ref,
                        ![t].before = IF wt[t].own THEN @ ELSE heap[ret[t].ref].px]
    /\ ret' = [ret EXCEPT ![t] = NoRet]
    /\ op' = [op EXCEPT ![t].cache = "font", ![t].key = fn, ![t].size = s]
    /\ mark' = [mark EXCEPT ![t] = [first |-> ~requested.font[fn] /\ ~Seeded("font", fn),
                                    fresh |-> ~assigned.font[fn],
                                    sure |-> settled.font[fn], undel |-> TRUE, nread |-> 0, wrote |-> FALSE]]
    /\ requested' = [requested EXCEPT !.font[fn] = TRUE]
    /\ pc' = [pc EXCEPT ![t] = "fg_lock"]
    /\ UNCHANGED <<async_mode, held, seen, instances, cache_dict, lock, heap, seed, nfonts, loc, fut,
                   ncalls, reads, assigned, settled>>

\* text = text.strip(); length, height, xy; draw.text(xy, text, ...)
writetext_draw(t) ==
  \E text \in Texts, center \in Centers :
    LET font == ret[t]
        xy == Origin(font, op[t].size, strip(text), center)
    IN /\ pc[t] = "wt_draw"
       /\ heap' = [heap EXCEPT ![wt[t].image].px = DrawText(@, xy, BlockLength(font, strip(text)))]
       /\ wt' = [wt EXCEPT ![t].text = text, ![t].center = center, ![t].xy = xy]
       /\ pc' = [pc EXCEPT ![t] = "wt_return"]
       /\ UNCHANGED <<async_mode, held, seen, instances, cache_dict, lock, seed, nfonts, op, loc, ret,
                      fut, ncalls, reads, requested, assigned, settled, mark>>

\* the chain of issubclass(return_type, ...) tests, ending in the raise
writetext_return(t) ==
  \E rt \in ReturnTypes, f \in Formats :
    LET image == wt[t].image
        r2 == [ret EXCEPT ![t] =
                 IF rt = "Image" THEN ImgRet(image)
                 ELSE IF rt = "BytesIO" THEN image_to_bytesio(heap[image].px, f)
                 ELSE IF rt = "bytes" THEN read(image_to_bytesio(heap[image].px, f))
                 ELSE Raise("RuntimeError")]
        w2 == [wt EXCEPT ![t] = [NoText EXCEPT !.image = IF wt[t].own THEN image ELSE 0,
                                              !.own = wt[t].own, !.before = wt[t].before]]
    IN /\ pc[t] = "wt_return"
       /\ ret' = r2
       /\ wt' = w2
       /\ heap' = Sweep(heap, Roots(cache_dict, loc, r2, seed, w2))
       /\ pc' = [pc EXCEPT ![t] = "done"]
       /\ UNCHANGED <<async_mode, held, seen, instances, cache_dict, lock, seed, nfonts, op, loc, fut,
                      ncalls, reads, requested, assigned, settled, mark>>

\* ------------------------------------------------------- the awaitable
\* what `await` gives for a finished awaitable: the value the worker's call
\* returned, or the exception it raised, raised again in the awaiting caller
Fallback(f, r) == IF f = "failed" THEN Value("bytes", <<>>) ELSE r
Awaited(f, r) == r

\* the caller awaits the awaitable Generator.__call__ gave it; it is resumed
\* once the worker's call has ended
Await(t) ==
  /\ pc[t] = "done"
  /\ fut[t] \in {"resolved", "failed"}
  /\ seen[t].n < MaxAwaits
  /\ seen' = [seen EXCEPT ![t] = [n |-> @.n + 1, last |-> Awaited(fut[t], ret[t])]]
  /\ UNCHANGED <<async_mode, held, wt, instances, cache_dict, lock, heap, seed, nfonts, pc, op, loc,
                 ret, fut, ncalls, reads, requested, assigned, settled, mark>>

\* ------------------------------- BaseImageGenerator.__new__ and __init__
\* dir(self), in its sorted order
Dir == <<"paste", "wanted", "worthless", "writetext">>
\* getattr(attr, "__image_generator__", False)
Tagged(n) == n \in TaggedNames
\* Generator(attr, gen=self): attr is the method n bound to instance i
SharedGenerator(n, i) == [func |-> <<"A", n>>, gen |-> "A"]
NewGenerator(n, i) == [func |-> <<i, n>>, gen |-> i]

\* the loop of __new__ over the names from position j on: the Generator
\* objects made so far and the instance's attributes
RECURSIVE Bind(_, _, _, _)
Bind(j, gs, attrs, i) ==
  IF j > Len(Dir) THEN <<gs, attrs>>
  ELSE IF Tagged(Dir[j])
       THEN Bind(j + 1, Append(gs, NewGenerator(Dir[j], i)),
                 [attrs EXCEPT ![Dir[j]] = Len(gs) + 1], i)
       ELSE Bind(j + 1, gs, attrs, i)

\* self.lock_type
ThreadingLock(ex) == "threading"
LockType(ex) == IF ex = "process" THEN "multiprocessing" ELSE "threading"
\* dict.copy(): a new mapping with the same values
DictCopy(d) == [k \in DOMAIN d |-> d[k]]
\* an image object nobody has yet
NewImage == CHOOSE o \in 1..MaxImages : pix[o] = "free" /\ \A q \in 1..(o - 1) : pix[q] # "free"

\* cls(async_mode=am, executor=ex, image_cache=...): __new__, then __init__;
\* no loop is passed, and the image mapping is the caller's or the default {}
Instantiate(i) ==
  \E am \in BOOLEAN, ex \in Executors, lp \in {"none"}, seeded \in BOOLEAN :
    LET bound == Bind(1, generators, NotBuilt.attrs, i)
        image_cache == IF seeded THEN supplied ELSE Empty
    IN /\ ~roots[i].built
       /\ i = "B" => roots["A"].built
       /\ generators' = bound[1]
       /\ roots' = [roots EXCEPT ![i] =
                      [built |-> TRUE, async_mode |-> am, given |-> am, executor |-> ex,
                       loop |-> IF am /\ lp = "none" THEN "current" ELSE lp,
                       image_lock |-> LockType(ex), font_lock |-> LockType(ex),
                       image_cache |-> DictCopy(image_cache), attrs |-> bound[2]]]
       /\ UNCHANGED <<inside, supplied, pix, log, nops>>

\* the constructors' caller draws on an image of its mapping
Caller_draws(o) ==
  /\ nops < MaxOps
  /\ o \in Range(supplied)
  /\ pix[o] # "m"
  /\ \E i \in Insts : roots[i].built
  /\ pix' = [pix EXCEPT ![o] = "m"]
  /\ nops' = nops + 1
  /\ UNCHANGED <<inside, roots, generators, supplied, log>>

\* the constructors' caller stores a new image in its mapping, or deletes one
Caller_assigns(k) ==
  /\ nops < MaxOps
  /\ \E i \in Insts : roots[i].built
  /\ \/ /\ \E o \in 1..MaxImages : pix[o] = "free"
        /\ supplied' = Put(supplied, k, NewImage)
        /\ pix' = [pix EXCEPT ![NewImage] = "n"]
     \/ /\ k \in DOMAIN supplied
        /\ supplied' = Drop(supplied, k)
        /\ pix' = pix
  /\ nops' = nops + 1
  /\ UNCHANGED <<inside, roots, generators, log>>

\* instance.image_cache[k] = a new image: AssetCache.__setitem__
Root_store(i, k) ==
  /\ nops < MaxOps
  /\ roots[i].built
  /\ \E o \in 1..MaxImages : pix[o] = "free"
  /\ roots' = [roots EXCEPT ![i].image_cache = StoreEntry(@, k, NewImage)]
  /\ pix' = [pix EXCEPT ![NewImage] = "c"]
  /\ nops' = nops + 1
  /\ UNCHANGED <<inside, generators, supplied, log>>

\* del instance.image_cache[k]: AssetCache.__delitem__
Root_delete(i, k) ==
  /\ nops < MaxOps
  /\ roots[i].built
  /\ k \in DOMAIN roots[i].image_cache
  /\ roots' = [roots EXCEPT ![i].image_cache = Drop(@, k)]
  /\ nops' = nops + 1
  /\ UNCHANGED <<inside, generators, supplied, pix, log>>

\* instance.async_mode = b, by whoever holds the instance
Set_async_mode(i) ==
  /\ nops < MaxOps
  /\ roots[i].built
  /\ roots' = [roots EXCEPT ![i].async_mode = ~@]
  /\ nops' = nops + 1
  /\ UNCHANGED <<inside, generators, supplied, pix, log>>

\* instance.n(...): through Generator.__call__ when the attribute is a
\* Generator, else the plain bound method. An asynchronous call needs the
\* loop that __init__ fetched only when it was given async_mode = True.
Invoke(i, n) ==
  LET via == roots[i].attrs[n]
      g == generators[via]
      owner == roots[g.gen]
      mode == IF Dispatch(owner.async_mode) = "worker" /\ owner.loop = "none"
              THEN "AttributeError" ELSE Dispatch(owner.async_mode)
  IN /\ nops < MaxOps
     /\ roots[i].built
     /\ log' = IF via = 0
               THEN [inst |-> i, name |-> n, via |-> 0, mode |-> "caller",
                     executor |-> "none", caches |-> i]
               ELSE [inst |-> i, name |-> g.func[2], via |-> via, mode |-> mode,
                     executor |-> IF mode = "worker" THEN owner.executor ELSE "none",
                     caches |-> g.func[1]]
     /\ nops' = nops + 1
     /\ UNCHANGED <<inside, roots, generators, supplied, pix>>

\* ---------------------------------------------------------- specification
\* threads using the two caches directly
Next ==
  \E t \in Threads :
    \/ Call_getitem_image(t)
    \/ Call_getitem_font(t)
    \/ Call_setitem(t)
    \/ Call_delitem(t)
    \/ Call_len(t)
    \/ Call_iter(t)
    \/ ImageCache_getitem_lock(t)
    \/ ImageCache_getitem_check(t)
    \/ ImageCache_getitem_open(t)
    \/ ImageCache_getitem_copy(t)
    \/ FontCache_getitem_lock(t)
    \/ FontCache_getitem_check(t)
    \/ FontCache_getitem_read(t)
    \/ FontCache_getitem_store(t)
    \/ AssetCache_setitem_lock(t)
    \/ AssetCache_setitem_store(t)
    \/ AssetCache_delitem_lock(t)
    \/ AssetCache_delitem_del(t)
    \/ AssetCache_len(t)
    \/ AssetCache_iter(t)
    \/ Iterator_next(t)
    \/ MutateResult(t)
    \/ Finish(t)

Spec == Init /\ [][Next]_vars

\* callers invoking dispatched paste operations, in either dispatch mode
InitGen == \E am \in BOOLEAN : Construct(am)

NextGen ==
  \E t \in Threads :
    \/ Generator_call(t)
    \/ Executor_run(t)
    \/ ImageCache_getitem_lock(t)
    \/ ImageCache_getitem_check(t)
    \/ ImageCache_getitem_open(t)
    \/ AssetCache_setitem_lock(t)
    \/ AssetCache_setitem_store(t)
    \/ ImageCache_getitem_copy(t)
    \/ paste_body(t)
    \/ paste_save(t)
    \/ Finish(t)

SpecGen == InitGen /\ [][NextGen]_vars

\* the same callers, awaiting the awaitables they were given
NextAwait ==
  \/ NextGen
  \/ \E t \in Threads : Await(t)

SpecAwait == InitGen /\ [][NextAwait]_vars

\* callers of writetext
NextText ==
  \E t \in Threads :
    \/ Call_writetext(t)
    \/ ImageCache_getitem_lock(t)
    \/ ImageCache_getitem_check(t)
    \/ ImageCache_getitem_open(t)
    \/ AssetCache_setitem_lock(t)
    \/ AssetCache_setitem_store(t)
    \/ ImageCache_getitem_copy(t)
    \/ writetext_font(t)
    \/ FontCache_getitem_lock(t)
    \/ FontCache_getitem_check(t)
    \/ FontCache_getitem_read(t)
    \/ FontCache_getitem_store(t)
    \/ writetext_draw(t)
    \/ writetext_return(t)
    \/ Finish(t)

SpecText == Init /\ [][NextText]_vars

\* a caller building instances from its image mapping and using them
NextNew ==
  \/ \E i \in Insts : Instantiate(i)
  \/ \E o \in 1..MaxImages : Caller_draws(o)
  \/ \E k \in ImgKeys : Caller_assigns(k)
  \/ \E i \in Insts, k \in ImgKeys : Root_store(i, k)
  \/ \E i \in Insts, k \in ImgKeys : Root_delete(i, k)
  \/ \E i \in Insts : Set_async_mode(i)
  \/ \E i \in Insts, n \in TaggedNames \cup PlainNames : Invoke(i, n)

InitNew == Init /\ seed = 0

SpecNew == InitNew /\ [][NextNew]_vars

\* threads reading, writing and deleting entries, some of the keys read
\* naming files that are absent or broken
NextFail ==
  \E t \in Threads :
    \/ Call_getitem_image(t)
    \/ Call_getitem_font(t)
    \/ Call_getitem_failing(t)
    \/ Call_setitem(t)
    \/ Call_delitem(t)
    \/ ImageCache_getitem_lock(t)
    \/ ImageCache_getitem_check(t)
    \/ ImageCache_getitem_open(t)
    \/ ImageCache_getitem_copy(t)
    \/ FontCache_getitem_lock(t)
    \/ FontCache_getitem_check(t)
    \/ FontCache_getitem_read(t)
    \/ FontCache_getitem_store(t)
    \/ AssetCache_setitem_lock(t)
    \/ AssetCache_setitem_store(t)
    \/ AssetCache_delitem_lock(t)
    \/ AssetCache_delitem_del(t)
    \/ Finish(t)

SpecFail == Init /\ [][NextFail]_vars

\* the statements of a call in progress on thread t: the interpreter gives
\* every runnable thread its turn, and a thread blocked in lock.acquire()
\* becomes runnable when the lock is released
Work(t) ==
  \/ ImageCache_getitem_lock(t)
  \/ ImageCache_getitem_check(t)
  \/ ImageCache_getitem_open(t)
  \/ ImageCache_getitem_copy(t)
  \/ FontCache_getitem_lock(t)
  \/ FontCache_getitem_check(t)
  \/ FontCache_getitem_read(t)
  \/ FontCache_getitem_store(t)
  \/ AssetCache_setitem_lock(t)
  \/ AssetCache_setitem_store(t)
  \/ AssetCache_delitem_lock(t)
  \/ AssetCache_delitem_del(t)

SpecLive == Init /\ [][NextFail]_vars /\ \A t \in Threads : WF_vars(Work(t))

\* ================================================================ claims

Done(t, names) == pc[t] = "done" /\ op[t].name \in names /\ ret[t].kind # "err"

\* what the cache hands out for key when nothing interferes
BasePx(k) == IF Seeded("img", k) THEN SeedPx ELSE Asset(k)

\* what the paste call of thread t returns when it runs alone
PasteAlone(t) ==
  IF op[t].kind = "image"
  THEN image_to_bytesio(PasteOp(BasePx(op[t].key), Resize(<<OvColor(t)>>, op[t].rs), op[t].at),
                        op[t].fmt)
  ELSE Raise("TypeError")

SameResult(r, e) == r.kind = e.kind /\ r.val = e.val

\* C1: concurrent paste calls on one generator, the same base key included,
\* each return what they return when run alone, and the cached base images
\* stay as they were loaded (or pre-seeded).
C1_PasteIsolated ==
  /\ \A t \in Threads : pc[t] = "done" /\ op[t].name = "paste"
        => SameResult(ret[t], PasteAlone(t))
  /\ \A k \in DOMAIN cache_dict.img : heap[cache_dict.img[k]].px = BasePx(k)

\* two calls on the same key that both missed, loaded and pasted
C1_Witness ==
  \E t, u \in Threads :
    /\ t # u /\ async_mode
    /\ Done(t, {"paste"}) /\ Done(u, {"paste"})
    /\ op[t].key = op[u].key /\ op[t].at = op[u].at
    /\ reads.img[op[t].key] = 2

\* the references some thread other than t holds
HeldByOthers(t) ==
  {loc[u].img : u \in Threads \ {t}}
    \cup {ret[u].ref : u \in {v \in Threads \ {t} : ret[v].kind = "img"}}

\* C2: the image a get returns is an object of the caller's own, on the hit
\* path and on the miss path, never the object the cache holds; so whatever
\* callers draw on their results, an entry loaded from basepath/key keeps the
\* file's pixels and no cached image ever shows a caller's drawing.
C2_CopyOnRead ==
  /\ \A t \in Threads : Done(t, {"iget"})
        => /\ ret[t].ref \notin Range(cache_dict.img)
           /\ ret[t].ref \notin HeldByOthers(t)
           /\ ret[t].val = <<>> => heap[ret[t].ref].px \in {Asset(op[t].key), SeedPx, Custom}
  /\ \A k \in DOMAIN cache_dict.img :
        /\ heap[cache_dict.img[k]].px # Marked
        /\ heap[cache_dict.img[k]].file = k => heap[cache_dict.img[k]].px = Asset(k)

\* a caller has drawn on the image a miss returned while the entry is intact
C2_Witness ==
  \E t \in Threads :
    /\ Done(t, {"iget"}) /\ ret[t].val = <<"drawn">> /\ mark[t].nread = 1
    /\ op[t].key \in DOMAIN cache_dict.img
    /\ heap[cache_dict.img[op[t].key]].file = op[t].key

\* C3 as stated: the first get(K) of a key never requested and not pre-seeded
\* makes exactly one backing-store read, every later get(K) with no delete
\* since makes none.
C3_Original ==
  \A t \in Threads : Done(t, {"iget", "fget"})
     => /\ mark[t].first => mark[t].nread = 1
        /\ mark[t].sure => mark[t].nread = 0

\* C3, amended: the first get(K) makes exactly one read when, besides, nobody
\* stored K (a set, a racing get) before or during it; a get(K) invoked after
\* a get(K) returned, with no delete(K) since, makes none.
C3_OneReadThenNone ==
  \A t \in Threads : Done(t, {"iget", "fget"})
     => /\ mark[t].first /\ mark[t].fresh => mark[t].nread = 1
        /\ mark[t].sure => mark[t].nread = 0
        /\ mark[t].nread <= 1

\* a second get of a font file, at another size, that read nothing
C3_Witness ==
  \E t \in Threads :
    /\ Done(t, {"fget"}) /\ mark[t].sure /\ mark[t].nread = 0
    /\ held[t].kind = "font" /\ held[t].val[2] # op[t].size
    /\ reads.font[op[t].key] = 1

\* C4: a get that missed writes the mapping only while it holds the lock.
C4_InsertUnderLock ==
  \A t \in Threads :
    /\ pc[t] = "set_store" /\ op[t].name \in {"iget", "paste"} => lock.img = t
    /\ pc[t] = "fg_store" => lock.font = t

\* the entry of key is the asset as loaded
EntryIsAsset(c, k) ==
  /\ k \in DOMAIN cache_dict[c]
  /\ IF c = "img"
     THEN heap[cache_dict.img[k]].px = Asset(k) /\ heap[cache_dict.img[k]].file = k
     ELSE cache_dict.font[k] = FileBytes(k)

\* the result of thread t's get is the asset as loaded
ResultIsAsset(t) ==
  IF op[t].name = "iget"
  THEN ret[t].val = <<>> => heap[ret[t].ref].px = Asset(op[t].key)
  ELSE ret[t].val = <<FileBytes(op[t].key), op[t].size>>

\* two gets of one key have both missed and loaded, nobody set or deleted it
Raced(t, u) ==
  /\ t # u
  /\ Done(t, {"iget", "fget"}) /\ Done(u, {"iget", "fget"})
  /\ op[t].cache = op[u].cache /\ op[t].key = op[u].key
  /\ mark[t].nread = 1 /\ mark[u].nread = 1
  /\ mark[t].undel /\ mark[u].undel
  /\ ~assigned[op[t].cache][op[t].key]

C6_AllSynchronized ==
  \A t \in Threads :
    pc[t] \in {"set_store", "del_del", "len", "iter", "it_next"} => lock[op[t].cache] = t

C8_FontKeyedByFilename ==
  /\ DOMAIN cache_dict.font \subseteq FontFiles
  /\ \A k \in DOMAIN cache_dict.font : cache_dict.font[k] \in {FileBytes(k), CustomBytes}
  /\ \A t \in Threads : Done(t, {"fget"})
        => /\ ret[t].kind = "font"
           /\ ret[t].val[2] = op[t].size
           /\ ret[t].val[1] \in {FileBytes(op[t].key), CustomBytes}
           /\ held[t].kind = "font" => ret[t].ref # held[t].ref
           /\ \A u \in Threads \ {t} :
                 /\ Done(u, {"fget"}) => ret[u].ref # ret[t].ref
                 /\ held[u].kind = "font" => held[u].ref # ret[t].ref
           /\ mark[t].sure => mark[t].nread = 0

\* get(F, s1) then get(F, s2): one read, one entry, two fonts of two sizes
C8_Witness ==
  \E t \in Threads :
    /\ Done(t, {"fget"}) /\ held[t].kind = "font"
    /\ held[t].val[2] # op[t].size
    /\ reads.font[op[t].key] = 1
    /\ DOMAIN cache_dict.font = {op[t].key}
    /\ cache_dict.font[op[t].key] = FileBytes(op[t].key)

\* C9: an entry leaves a mapping only in the step of a delete of its key.
C9_NoImplicitRemoval ==
  [][\A c \in Caches : \A k \in DOMAIN cache_dict[c] :
        k \notin DOMAIN cache_dict'[c]
          => \E t \in Threads : /\ pc[t] = "del_del" /\ pc'[t] = "done"
                                /\ op[t].cache = c /\ op[t].key = k]_vars

\* the second entry was stored and the first is still there
C9_Witness ==
  /\ DOMAIN cache_dict.img = ImgKeys
  /\ \E t \in Threads : pc[t] = "done" /\ op[t].name \in {"iget", "set"}

\* C10: in asynchronous mode the call runs on a worker and its caller holds
\* the awaitable from the invocation on, unresolved while the work runs; the
\* awaitable ends with what the same call returns synchronously, a failure
\* as a failed awaitable. In synchronous mode the call runs in the caller's
\* context and there is no awaitable.
C10_AsyncEqualsSync ==
  \A t \in Threads : op[t].name = "paste"
     => /\ op[t].ctx = (IF async_mode THEN "worker" ELSE "caller")
        /\ ~async_mode => fut[t] = "none"
        /\ async_mode /\ pc[t] # "done" => fut[t] = "pending"
        /\ async_mode /\ pc[t] = "done"
             => fut[t] = (IF ret[t].kind = "err" THEN "failed" ELSE "resolved")
        /\ pc[t] = "done" => SameResult(ret[t], PasteAlone(t))

\* one awaitable is resolved while another submitted call has not started
C10_Witness ==
  \E t, u \in Threads :
    /\ async_mode
    /\ pc[t] = "done" /\ fut[t] = "resolved"
    /\ pc[u] = "queued" /\ fut[u] = "pending" /\ op[u].key = op[t].key

\* C11: a failing operation's failure reaches its caller and nobody else. In
\* synchronous mode the invocation itself ends with the failure, in the
\* caller's context, and there is nothing to await. In asynchronous mode the
\* invocation hands back an awaitable whatever the operation will do, the
\* awaitable of a failing operation ends failed, the caller has observed
\* nothing until it awaits, and every await gives exactly the operation's
\* failure (for a succeeding operation, its result): never a fallback.
C11_ErrorsSurface ==
  \A t \in Threads : op[t].name = "paste"
     => /\ ~async_mode
             => /\ fut[t] = "none" /\ seen[t] = NoSeen /\ op[t].ctx = "caller"
                /\ pc[t] = "done" /\ convert_to_image(op[t].kind, OvColor(t)) = <<>>
                      => ret[t] = Raise("TypeError")
        /\ async_mode
             => /\ fut[t] # "none" /\ op[t].ctx = "worker"
                /\ pc[t] # "done" => fut[t] = "pending" /\ ret[t].kind # "err"
                /\ pc[t] = "done" /\ convert_to_image(op[t].kind, OvColor(t)) = <<>>
                      => fut[t] = "failed" /\ ret[t] = Raise("TypeError")
                /\ fut[t] = "failed" => ret[t].kind = "err"
                /\ seen[t].n = 0 => seen[t].last = NoRet
                /\ seen[t].n > 0 => seen[t].last = ret[t] /\ pc[t] = "done"

\* a failed awaitable has been awaited twice and gave the failure both times,
\* while the other caller's operation succeeded
C11_Witness ==
  \E t, u \in Threads :
    /\ t # u /\ async_mode
    /\ pc[t] = "done" /\ fut[t] = "failed"
    /\ seen[t].n = 2 /\ seen[t].last = Raise("TypeError")
    /\ pc[u] = "done" /\ fut[u] = "resolved" /\ seen[u].n = 1 /\ seen[u].last.kind = "bytes"

\* C12: a call that fails leaves no partial output: when writetext ends with
\* the error for an unsupported return type, or paste with the error for an
\* invalid overlay, there is no result, an image object the caller passed in
\* has the pixels it had before the call, and no cached image has changed.
C12_NoPartialOutput ==
  \A t \in Threads : pc[t] = "done" /\ op[t].name \in {"text", "paste"} /\ ret[t].kind = "err"
     => /\ ret[t].ref = 0
        /\ wt[t].own => heap[wt[t].image].px = wt[t].before
        /\ \A k \in DOMAIN cache_dict.img : heap[cache_dict.img[k]].px = BasePx(k)

\* the inputs of the writetext call of thread t, as the claim names them
TextWidth(t) == BlockLength(TrueType(0, FileBytes(op[t].key), op[t].size), strip(wt[t].text))
TextHeight(t) == op[t].size * Len(split(strip(wt[t].text)))

\* C16 as stated: the origin is the center minus exactly half the block's
\* width and height (compared here with both sides doubled).
C16_Original ==
  \A t \in Threads : pc[t] = "wt_return"
     => /\ 2 * wt[t].xy[1] = 2 * wt[t].center[1] - TextWidth(t)
        /\ 2 * wt[t].xy[2] = 2 * wt[t].center[2] - TextHeight(t)

\* C16, amended: the origin is the center minus half the block's width and
\* height, each half rounded down to a whole number; it depends on the text,
\* the font file, the size and the center only, whatever the caches hold and
\* whatever calls came before.
C16_OriginFloor ==
  \A t \in Threads : pc[t] = "wt_return"
     => LET dx == wt[t].center[1] - wt[t].xy[1]
            dy == wt[t].center[2] - wt[t].xy[2]
        IN /\ 2 * dx <= TextWidth(t) /\ TextWidth(t) < 2 * dx + 2
           /\ 2 * dy <= TextHeight(t) /\ TextHeight(t) < 2 * dy + 2

\* a second call, whose font came from the cache without a read, on a text
\* that needed trimming and whose block has an odd width
C16_Witness ==
  \E t \in Threads :
    /\ pc[t] = "wt_return" /\ mark[t].sure /\ mark[t].nread = 0
    /\ strip(wt[t].text) # wt[t].text
    /\ TextWidth(t) = 3

\* what the image cache of instance i holds, by value
Content(i) == [k \in DOMAIN roots[i].image_cache |-> pix[roots[i].image_cache[k]]]

\* C13: what an instance was seeded with is its own. A step in which the
\* constructors' caller changes its mapping, or an image of its mapping,
\* changes nothing any built instance holds (and so returns); a step that
\* changes the cache of one instance leaves the caller's mapping and the
\* cache of the other instance, built from the same mapping or from the
\* default, as they were.
C13_SeedsCopied ==
  [][/\ (supplied' # supplied \/ \E o \in Range(supplied) : pix'[o] # pix[o])
         => \A i \in Insts : roots[i].built => Content(i)' = Content(i)
     /\ \A i \in Insts :
          roots[i].built /\ roots'[i].image_cache # roots[i].image_cache
            => /\ supplied' = supplied
               /\ \A j \in Insts \ {i} :
                     roots[j].built => roots'[j].image_cache = roots[j].image_cache]_vars

\* C14: both locks of an instance are of the cross-process kind exactly when
\* its executor is a process pool, whatever its dispatch mode is or becomes.
C14_LockSelection ==
  \A i \in Insts : roots[i].built
     => /\ roots[i].image_lock \in {"threading", "multiprocessing"}
        /\ roots[i].font_lock \in {"threading", "multiprocessing"}
        /\ roots[i].image_lock = "multiprocessing" <=> roots[i].executor = "process"
        /\ roots[i].font_lock = "multiprocessing" <=> roots[i].executor = "process"

\* a synchronous instance with a process pool next to an asynchronous one
\* with a thread pool
C14_Witness ==
  /\ roots["A"].built /\ roots["A"].executor = "process" /\ ~roots["A"].given
  /\ roots["A"].image_lock = "multiprocessing"
  /\ roots["B"].built /\ roots["B"].executor = "thread" /\ roots["B"].given
  /\ roots["B"].font_lock = "threading"

\* C15: every invocation through a Generator runs in the mode its instance
\* was constructed with.
C15_ModeFixed ==
  log.via > 0 => log.mode = Dispatch(roots[generators[log.via].gen].given)

\* every built instance has one Generator of its own for each tagged name
\* and none for the others, and shares none with the other instance
Bound ==
  \A i \in Insts : roots[i].built
     => /\ \A n \in TaggedNames :
             /\ roots[i].attrs[n] \in 1..Len(generators)
             /\ generators[roots[i].attrs[n]] = [func |-> <<i, n>>, gen |-> i]
             /\ Cardinality({g \in 1..Len(generators) :
                               generators[g].gen = i /\ generators[g].func[2] = n}) = 1
        /\ \A n \in PlainNames : roots[i].attrs[n] = 0
        /\ \A j \in Insts \ {i}, n, m \in TaggedNames :
             roots[j].built => roots[i].attrs[n] # roots[j].attrs[m]

\* the invocation logged used the mode, the executor and the caches of the
\* instance it was made on
UsesOwn ==
  LET r == roots[log.inst]
      mode == IF log.via = 0 THEN "caller"
              ELSE IF r.async_mode /\ r.loop = "none" THEN "AttributeError"
              ELSE IF r.async_mode THEN "worker" ELSE "caller"
  IN /\ log.caches = log.inst
     /\ log.mode = mode
     /\ log.executor = (IF mode = "worker" THEN r.executor ELSE "none")
     /\ log.via > 0 <=> log.name \in TaggedNames

\* C17: construction binds each tagged name of the instance to exactly one
\* Generator owned by that instance, wraps no untagged method and shares no
\* Generator between instances; an invocation on an instance uses that
\* instance's mode, executor and caches.
C17_OwnDispatchers ==
  [][Bound' /\ (log' # log => UsesOwn')]_vars

\* with two instances of different mode and executor built, the tagged
\* operation of the second ran on the second one's executor and caches
C17_Witness ==
  /\ roots["A"].built /\ roots["B"].built
  /\ ~roots["A"].async_mode /\ roots["A"].executor = "thread"
  /\ roots["B"].async_mode /\ roots["B"].executor = "process"
  /\ log.inst = "B" /\ log.via = 4 /\ log.mode = "worker" /\ log.executor = "process"
  /\ log.caches = "B"

\* a call in progress; the statement at which a call takes a lock; the
\* statements inside a `with self.lock:` block
InCall(t) == pc[t] \notin {"idle", "done"}
Acquiring(t) == pc[t] \in {"ig_lock", "fg_lock", "set_lock", "del_lock"}
InsideWith(t) == pc[t] \in {"ig_check", "fg_check", "set_store", "del_del"}

LockDiscipline ==
  \A t \in Threads :
    /\ Acquiring(t) => lock[op[t].cache] # t
    /\ \A c \in Caches : lock[c] = t => InsideWith(t) /\ op[t].cache = c

\* C18: no thread acquires a cache lock it already holds, a lock is held
\* only inside a with-block and is free again once the call has returned or
\* raised, and under fair scheduling of the threads every get, set and
\* delete call begun eventually returns or raises: no thread stays inside a
\* call for ever.
C18_LocksAndProgress ==
  /\ []LockDiscipline
  /\ \A t \in Threads : []<>(~InCall(t))

\* a delete has raised KeyError out of its with-block, and the other thread
\* has since taken the lock of that cache
C18_Witness ==
  \E t, u \in Threads :
    /\ t # u
    /\ pc[t] = "done" /\ op[t].name = "del" /\ ret[t] = Raise("KeyError")
    /\ lock[op[t].cache] = u

\* C19: every copy of an image object that is a value of the ImageCache
\* mapping is made by a thread holding the cache lock, so that no two
\* threads operate on a stored object at once.
C19_StoredAccessUnderLock ==
  [][\A t \in Threads :
       (ImageCache_getitem_copy(t) /\ loc[t].img \in Range(cache_dict.img)) => lock.img = t]_vars

\* C20: a get that raised has not written the mapping, does not hold the
\* lock, and has attempted the load from the file.
C20_FailedGetLeavesCache ==
  \A t \in Threads :
    (pc[t] = "done" /\ op[t].name \in {"iget", "fget"} /\ ret[t].kind = "err") =>
      /\ ~mark[t].wrote
      /\ lock[op[t].cache] # t
      /\ mark[t].nread = 1

====
